---- MODULE Spec2Model ----
(***************************************************************************)
(* Doodle Jump (Bevy + Rapier): the per-frame systems of src/main.rs.      *)
(*                                                                         *)
(* Lengths and positions are fixed-point, in 1/1000 of a pixel; speeds are *)
(* in pixels per second and frame times in milliseconds, so that           *)
(* speed * time is again in 1/1000 of a pixel.                             *)
(***************************************************************************)
EXTENDS Integers, Sequences, FiniteSets, TLC

\* ------------------------------------------------------------ constants
WINDOW_WIDTH == 960000
WINDOW_HEIGHT == 540000
PLATFORM_WIDTH == 120000
SPRITE_SIZE == 49920
MOVEMENT_SPEED == 300
JUMP_FORCE == 200
FOLLOW_SPEED == 5

\* The player's entity; the platforms are the entities 1..NumPlatforms.
PlayerEntity == 0

\* ------------------------------------------------------------ bounds
\* Platforms of the field (the source spawns 1 + 49).
NumPlatforms == 2
\* Collision events the physics step emits in one frame.
MaxEvents == 2

VARIABLES
    stage,             \* the stage of the frame that is running
    pending,           \* systems of that stage that have not run yet
    linvel_x,          \* Velocity.linvel of the player
    linvel_y,
    translation_x,     \* Transform.translation of the player
    translation_y,
    player_colliding,  \* Player.player_colliding
    facing_right,      \* Player.facing_right
    camera_x,          \* Transform.translation of the camera
    camera_y,
    already_collided,  \* Platform.already_collided, per platform entity
    score,             \* ScoreValue.0, an i8
    collision_events,  \* CollisionEvent's not yet read by the handler
    contacts,          \* platforms the physics engine holds in contact
    keyboard_input,    \* Input<KeyCode> snapshot handed to the input system
    platform_y,        \* Transform.translation.y of the platforms, in spawn order
    last_platform_x,   \* Transform.translation.x of the platform spawned last
    time_delta,        \* Time::delta, where a specification holds it fixed
    flip_x,            \* Sprite.flip_x of the player
    score_text,        \* Text.sections[0].value of the score text
    update_systems     \* systems of CoreStage::Update that are followed

vars == <<stage, pending, linvel_x, linvel_y, translation_x, translation_y,
          player_colliding, facing_right, camera_x, camera_y,
          already_collided, score, collision_events, contacts,
          keyboard_input, platform_y, last_platform_x, time_delta, flip_x,
          score_text, update_systems>>

\* What the frame systems of the player, the camera and the physics step
\* neither read nor write.
field == <<platform_y, last_platform_x>>
presentation == <<flip_x, score_text>>

Platforms == 1..NumPlatforms

\* ------------------------------------------------------------ i8
\* score.0 += 1 on an i8: two's complement wrap-around.
I8Add(a, b) == ((a + b + 128) % 256) - 128

\* ------------------------------------------------------------ events
Started(a, b, f) == [kind |-> "Started", e1 |-> a, e2 |-> b, flags |-> f]
Stopped(a, b, f) == [kind |-> "Stopped", e1 |-> a, e2 |-> b, flags |-> f]

\* ------------------------------------------------------------ keyboard
KeyStates == [left : BOOLEAN, right : BOOLEAN, down : BOOLEAN, respawn : BOOLEAN]
NoKeys == [left |-> FALSE, right |-> FALSE, down |-> FALSE, respawn |-> FALSE]

\* ------------------------------------------------------------ player_input_system
\* x_input = -(left as i8) + right as i8
XInput(k) == (IF k.right THEN 1 ELSE 0) - (IF k.left THEN 1 ELSE 0)

\* player_input_dir /= player_input_dir.length(), when it is not Vec2::ZERO
Normalize(x) == IF x # 0 THEN x \div (IF x < 0 THEN -x ELSE x) ELSE x

\* Mutant: the two assignments in the other order (left, then right).
FacingAfterRightLast(fr, k) ==
    LET afterLeft == IF k.left THEN FALSE ELSE fr
    IN  IF k.right THEN TRUE ELSE afterLeft

\* if right { facing_right = true }  if left { facing_right = false }
FacingAfter(fr, k) ==
    LET afterRight == IF k.right THEN TRUE ELSE fr
    IN  IF k.left THEN FALSE ELSE afterRight

\* Mutant: the jump is assigned after the fast fall.
LinvelYAfterJumpLast(vy, colliding, k) ==
    LET afterFall == IF k.down THEN (-JUMP_FORCE) * 3 ELSE vy
    IN  IF colliding = TRUE THEN JUMP_FORCE ELSE afterFall

\* if player_colliding == true { linvel.y = jump_force }
\* if down { linvel.y = -jump_force * 3.0 }
LinvelYAfter(vy, colliding, k) ==
    LET afterJump == IF colliding = TRUE THEN JUMP_FORCE ELSE vy
    IN  IF k.down THEN (-JUMP_FORCE) * 3 ELSE afterJump

player_input_system(k) ==
    /\ facing_right' = FacingAfter(facing_right, k)
    /\ linvel_x' = Normalize(XInput(k)) * MOVEMENT_SPEED
    /\ linvel_y' = LinvelYAfter(linvel_y, player_colliding, k)
    /\ translation_x' = IF k.respawn = TRUE THEN 0 ELSE translation_x
    /\ translation_y' = IF k.respawn = TRUE THEN 0 ELSE translation_y

\* ------------------------------------------------------------ player_camera_follow_system
\* Vec3::lerp: self + (rhs - self) * s, with s in 1/1000
Lerp(a, b, s) == a + ((b - a) * s) \div 1000

\* Mutant: the camera follows the player on both axes.
player_camera_follow_system_both_axes(dt) ==
    /\ camera_x' = Lerp(camera_x, translation_x, dt * FOLLOW_SPEED)
    /\ camera_y' = Lerp(camera_y, translation_y, dt * FOLLOW_SPEED)

\* dt is time.delta_seconds(), in milliseconds
player_camera_follow_system(dt) ==
    /\ camera_x' = Lerp(camera_x, 0, dt * FOLLOW_SPEED)
    /\ camera_y' = Lerp(camera_y, translation_y, dt * FOLLOW_SPEED)

\* ------------------------------------------------------------ player_screen_looping_system
RightEdge == WINDOW_WIDTH \div 2 + SPRITE_SIZE \div 2
LeftEdge == -(WINDOW_WIDTH \div 2)
LeftEntry == -(WINDOW_WIDTH \div 2) + (SPRITE_SIZE * 12) \div 10
RightEntry == WINDOW_WIDTH \div 2 + SPRITE_SIZE \div 2

\* Mutant: the left entry is put on the wrong side of the left edge.
LoopedXSignSlip(x) ==
    IF x > RightEdge THEN -(WINDOW_WIDTH \div 2) - (SPRITE_SIZE * 12) \div 10
    ELSE IF x < LeftEdge THEN RightEntry
    ELSE x

\* Mutant: the right edge itself wraps.
LoopedXInclusive(x) ==
    IF x >= RightEdge THEN LeftEntry
    ELSE IF x < LeftEdge THEN RightEntry
    ELSE x

\* Mutant: the right entry gets the offset of the left entry.
LoopedXSymmetric(x) ==
    IF x > RightEdge THEN LeftEntry
    ELSE IF x < LeftEdge THEN WINDOW_WIDTH \div 2 + (SPRITE_SIZE * 12) \div 10
    ELSE x

LoopedX(x) ==
    IF x > RightEdge THEN LeftEntry
    ELSE IF x < LeftEdge THEN RightEntry
    ELSE x

player_screen_looping_system ==
    translation_x' = LoopedX(translation_x)

\* ------------------------------------------------------------ player_collision_detection_system
\* The state the handler works on: [score, player_colliding, already_collided].
\* Mutant: the already_collided guard of the increment is dropped.
OnStartedUnguarded(st, p) ==
    [score |-> I8Add(st.score, 1),
     player_colliding |-> TRUE,
     already_collided |-> [st.already_collided EXCEPT ![p] = TRUE]]

\* Mutant: the increment is taken for a platform that has collided before.
OnStartedInverted(st, p) ==
    [score |-> IF st.already_collided[p] = TRUE
               THEN I8Add(st.score, 1) ELSE st.score,
     player_colliding |-> TRUE,
     already_collided |-> [st.already_collided EXCEPT ![p] = TRUE]]

\* Mutant: the platform is not marked.
OnStartedUnmarked(st, p) ==
    [score |-> IF (~st.already_collided[p]) = TRUE
               THEN I8Add(st.score, 1) ELSE st.score,
     player_colliding |-> TRUE,
     already_collided |-> st.already_collided]

OnStarted(st, p) ==
    [score |-> IF (~st.already_collided[p]) = TRUE
               THEN I8Add(st.score, 1) ELSE st.score,
     player_colliding |-> TRUE,
     already_collided |-> [st.already_collided EXCEPT ![p] = TRUE]]

\* Mutant: leaving a platform re-arms it.
OnStoppedRearm(st, p) ==
    [st EXCEPT !.player_colliding = FALSE, !.already_collided[p] = FALSE]

\* Mutant: the flag follows the contacts the physics engine still holds.
OnStoppedCounting(st, p) == [st EXCEPT !.player_colliding = (contacts # {})]

OnStopped(st, p) == [st EXCEPT !.player_colliding = FALSE]

\* The body of the inner loop, for one event and one platform of the query.
HandlePlatform(ev, p, st) ==
    IF ev = Started(PlayerEntity, p, 0) THEN OnStarted(st, p)
    ELSE IF ev = Stopped(PlayerEntity, p, 0) THEN OnStopped(st, p)
    ELSE st

\* for (platform_entity, platform_object) in platform_query.iter_mut()
\* The entities of the query are distinct and an event names one of them at
\* most, so at most one pass of the loop changes anything: the loop leaves
\* what that pass leaves.
ForEachPlatform(ev, ps, st) ==
    LET hit == {i \in DOMAIN ps : HandlePlatform(ev, ps[i], st) # st}
    IN  IF hit = {} THEN st
        ELSE HandlePlatform(ev, ps[CHOOSE i \in hit : TRUE], st)

\* for collision_event in collision_events.iter()
RECURSIVE ForEachEvent(_, _, _)
ForEachEvent(evs, ps, st) ==
    IF evs = <<>> THEN st
    ELSE ForEachEvent(Tail(evs), ps, ForEachPlatform(Head(evs), ps, st))

\* The platform entities of the query, in spawn order.
PlatformQuery == [i \in DOMAIN already_collided |-> i]

player_collision_detection_system ==
    LET st == ForEachEvent(collision_events, PlatformQuery,
                           [score |-> score,
                            player_colliding |-> player_colliding,
                            already_collided |-> already_collided])
    IN  /\ score' = st.score
        /\ player_colliding' = st.player_colliding
        /\ already_collided' = st.already_collided
        /\ collision_events' = <<>>

\* ------------------------------------------------------------ physics step (Rapier)
\* The pair of a contact between the player and platform p; Rapier fixes no
\* order of the two entities of a CollisionEvent.
Pairs(p) == {<<PlayerEntity, p>>, <<p, PlayerEntity>>}

\* Events the step can emit when the platforms in c are in contact: a contact
\* starts for a platform outside c and stops for one inside it.  No collider
\* is a sensor and none is removed, so the flags are empty.
Emittable(c) ==
    {Started(pr[1], pr[2], 0) : pr \in UNION {Pairs(p) : p \in Platforms \ c}}
    \cup {Stopped(pr[1], pr[2], 0) : pr \in UNION {Pairs(p) : p \in c}}

PlatformOf(ev) == IF ev.e1 = PlayerEntity THEN ev.e2 ELSE ev.e1

ContactsAfterEvent(ev, c) ==
    IF ev.kind = "Started" THEN c \cup {PlatformOf(ev)} ELSE c \ {PlatformOf(ev)}

RECURSIVE ContactsAfter(_, _)
ContactsAfter(evs, c) ==
    IF evs = <<>> THEN c
    ELSE ContactsAfter(Tail(evs), ContactsAfterEvent(Head(evs), c))

\* The event lists of at most n events one step can emit from contacts c.
RECURSIVE Emissions(_, _)
Emissions(c, n) ==
    {<<>>} \cup
    (IF n = 0 THEN {}
     ELSE UNION {{<<ev>> \o rest : rest \in Emissions(ContactsAfterEvent(ev, c), n - 1)}
                 : ev \in Emittable(c)})

\* Where the integration can leave the player horizontally: where it was, or
\* past the right edge of the window.
PhysXs(x) == {x, RightEdge + 10000}
\* The vertical speed after the step (gravity has acted).
PhysLinvelYs == {-44}

\* The frame's step: the events it emits, the contacts it holds afterwards,
\* and the player's body written back.  The height of the player is left
\* where it was: nothing in the frame but the camera reads it.
physics_step ==
    \E evs \in Emissions(contacts, MaxEvents) :
        /\ collision_events' = collision_events \o evs
        /\ contacts' = ContactsAfter(evs, contacts)
        /\ translation_x' \in PhysXs(translation_x)
        /\ translation_y' = translation_y
        /\ linvel_y' \in PhysLinvelYs

\* Frame times (time.delta_seconds(), in milliseconds) of the game loop.
FrameDeltas == {200}

\* ------------------------------------------------------------ the frame
\* main(): the systems of CoreStage::Update run in no fixed order, then the
\* physics step, then the systems of CoreStage::PostUpdate in no fixed order.
\* update_score_system and player_animation_system (CoreStage::Update) write
\* only the score text and Sprite.flip_x, which no system reads; they are not
\* followed here.
UpdateSystems == {"player_input_system", "player_camera_follow_system"}
PostUpdateSystems == {"player_collision_detection_system",
                      "player_screen_looping_system"}

\* ------------------------------------------------------------ the platform field
\* Height of the platform spawned for loop index `index`; the anchor platform
\* has the height of index 0.  WINDOW_HEIGHT / 4.2 is rounded to 1/1000 px
\* before it is multiplied, as the source divides before it multiplies.
PlatformY(index) ==
    -(WINDOW_HEIGHT \div 4) + ((WINDOW_HEIGHT * 10) \div 42) * index

\* Mutant: the loop runs to 50 inclusive.
SpawnIndicesInclusive == 1..50
\* Mutant: a field three times as long.
SpawnIndicesLong == 1..(3 * 50)
\* for index in 1..50 : the upper end is exclusive.
SpawnIndices == 1..49

\* Sample points of the horizontal axis from which random draws are taken:
\* the ends of the window, of the window less half a platform and of the
\* window less a whole platform, each with its neighbours.
DrawGrid ==
    LET w == WINDOW_WIDTH \div 2
        h == WINDOW_WIDTH \div 2 - PLATFORM_WIDTH \div 2
        f == WINDOW_WIDTH \div 2 - PLATFORM_WIDTH
    IN  {-w, -h - 1, -h, -h + 1, -f - 1, -f, -f + 1, 0,
         f - 1, f, f + 1, h - 1, h, h + 1, w}

\* Mutant: the range includes its upper end (low..=high).
gen_range_inclusive(low, high) == {x \in DrawGrid : low <= x /\ x <= high}

\* rng.gen_range(low..high) : any value of the half-open range.
gen_range(low, high) == {x \in DrawGrid : low <= x /\ x < high}

\* The range the spawn loop draws a platform's x from.
SpawnXs ==
    gen_range(-(WINDOW_WIDTH \div 2 - PLATFORM_WIDTH),
              WINDOW_WIDTH \div 2 - PLATFORM_WIDTH)

\* spawn_world_system and the resources main() inserts.
Init ==
    /\ stage = "Update"
    /\ pending = UpdateSystems
    /\ linvel_x = 0
    /\ linvel_y = 0
    /\ translation_x = 0
    /\ translation_y = 0
    /\ player_colliding = FALSE
    /\ facing_right = TRUE
    /\ camera_x = 0
    /\ camera_y = 0
    /\ already_collided = [p \in Platforms |-> FALSE]
    /\ score = 0
    /\ collision_events = <<>>
    /\ contacts = {}
    /\ keyboard_input = NoKeys
    /\ platform_y = [i \in Platforms |-> PlatformY(i - 1)]
    /\ last_platform_x = 0
    /\ time_delta = 0
    /\ flip_x = FALSE
    /\ score_text = "0.0"
    /\ update_systems = UpdateSystems

\* A system of the running stage ends: the stage ends with its last system.
Ran(sys, next, systems) ==
    /\ sys \in pending
    /\ IF pending = {sys}
       THEN stage' = next /\ pending' = systems
       ELSE stage' = stage /\ pending' = pending \ {sys}

InputStep ==
    /\ stage = "Update"
    /\ Ran("player_input_system", "Physics", {})
    /\ \E k \in KeyStates : player_input_system(k)
    /\ UNCHANGED <<keyboard_input, player_colliding, camera_x, camera_y, already_collided,
                   score, collision_events, contacts,
                   field, presentation, time_delta, update_systems>>

CameraStep ==
    /\ stage = "Update"
    /\ Ran("player_camera_follow_system", "Physics", {})
    /\ \E dt \in FrameDeltas : player_camera_follow_system(dt)
    /\ UNCHANGED <<linvel_x, linvel_y, translation_x, translation_y,
                   player_colliding, facing_right, already_collided, score,
                   collision_events, contacts, keyboard_input,
                   field, presentation, time_delta, update_systems>>

PhysicsStep ==
    /\ stage = "Physics"
    /\ stage' = "PostUpdate"
    /\ pending' = PostUpdateSystems
    /\ physics_step
    /\ UNCHANGED <<linvel_x, player_colliding, facing_right, camera_x,
                   camera_y, already_collided, score, keyboard_input,
                   field, presentation, time_delta, update_systems>>

CollisionStep ==
    /\ stage = "PostUpdate"
    /\ Ran("player_collision_detection_system", "Update", update_systems)
    /\ player_collision_detection_system
    /\ UNCHANGED <<linvel_x, linvel_y, translation_x, translation_y,
                   facing_right, camera_x, camera_y, contacts, keyboard_input,
                   field, presentation, time_delta, update_systems>>

LoopingStep ==
    /\ stage = "PostUpdate"
    /\ Ran("player_screen_looping_system", "Update", update_systems)
    /\ player_screen_looping_system
    /\ UNCHANGED <<linvel_x, linvel_y, translation_y, player_colliding,
                   facing_right, camera_x, camera_y, already_collided, score,
                   collision_events, contacts, keyboard_input,
                   field, presentation, time_delta, update_systems>>

Next ==
    \/ InputStep
    \/ CameraStep
    \/ PhysicsStep
    \/ CollisionStep
    \/ LoopingStep

Spec == Init /\ [][Next]_vars

\* ------------------------------------------------------------ the input system alone
\* player_input_system on every key snapshot and every player state it can
\* meet: the snapshot is drawn into keyboard_input, the system runs once.
InputLinvelYs == {(-JUMP_FORCE) * 3, -44, 0, JUMP_FORCE}

InitInput ==
    /\ stage = "Update"
    /\ pending = {"player_input_system"}
    /\ keyboard_input \in KeyStates
    /\ player_colliding \in BOOLEAN
    /\ facing_right \in BOOLEAN
    /\ linvel_x \in {-MOVEMENT_SPEED, 0, MOVEMENT_SPEED}
    /\ linvel_y \in InputLinvelYs
    /\ translation_x \in {0, LeftEntry}
    /\ translation_y = 0
    /\ camera_x = 0
    /\ camera_y = 0
    /\ already_collided = [p \in Platforms |-> FALSE]
    /\ score = 0
    /\ collision_events = <<>>
    /\ contacts = {}
    /\ platform_y = [i \in Platforms |-> PlatformY(i - 1)]
    /\ last_platform_x = 0
    /\ time_delta = 0
    /\ flip_x = FALSE
    /\ score_text = "0.0"
    /\ update_systems = UpdateSystems

InputApply ==
    /\ stage = "Update"
    /\ Ran("player_input_system", "Physics", {})
    /\ player_input_system(keyboard_input)
    /\ UNCHANGED <<keyboard_input, player_colliding, camera_x, camera_y,
                   already_collided, score, collision_events, contacts,
                   field, presentation, time_delta, update_systems>>

NextInput == InputApply

SpecInput == InitInput /\ [][NextInput]_vars

\* ------------------------------------------------------------ movement and the wrap system
\* The player's horizontal position under one frame of movement at a time
\* (linvel.x * dt, at 60 frames a second or in a slow frame) followed by
\* player_screen_looping_system, from positions on, at and beside both edges.
WrapDeltas == {16, 200}

WrapXs ==
    {0, LeftEdge, LeftEdge - 1, LeftEdge + 1, RightEdge, RightEdge - 1,
     RightEdge + 1, LeftEntry, LeftEdge - 60000, RightEdge + 60000}

InitWrap ==
    /\ stage = "PostUpdate"
    /\ pending = {"player_screen_looping_system"}
    /\ translation_x \in WrapXs
    /\ translation_y \in {0, 100000}
    /\ linvel_x = 0
    /\ linvel_y = 0
    /\ player_colliding = FALSE
    /\ facing_right = TRUE
    /\ camera_x = 0
    /\ camera_y = 0
    /\ already_collided = [p \in Platforms |-> FALSE]
    /\ score = 0
    /\ collision_events = <<>>
    /\ contacts = {}
    /\ keyboard_input = NoKeys
    /\ platform_y = [i \in Platforms |-> PlatformY(i - 1)]
    /\ last_platform_x = 0
    /\ time_delta = 0
    /\ flip_x = FALSE
    /\ score_text = "0.0"
    /\ update_systems = UpdateSystems

WrapMove ==
    /\ stage = "Physics"
    /\ stage' = "PostUpdate"
    /\ pending' = {"player_screen_looping_system"}
    /\ \E dt \in WrapDeltas, v \in {-MOVEMENT_SPEED, 0, MOVEMENT_SPEED} :
          /\ linvel_x' = v
          /\ translation_x' = translation_x + v * dt
    /\ UNCHANGED <<linvel_y, translation_y, player_colliding, facing_right,
                   camera_x, camera_y, already_collided, score,
                   collision_events, contacts, keyboard_input,
                   field, presentation, time_delta, update_systems>>

WrapLoop ==
    /\ stage = "PostUpdate"
    /\ Ran("player_screen_looping_system", "Physics", {})
    /\ player_screen_looping_system
    /\ UNCHANGED <<linvel_x, linvel_y, translation_y, player_colliding,
                   facing_right, camera_x, camera_y, already_collided, score,
                   collision_events, contacts, keyboard_input,
                   field, presentation, time_delta, update_systems>>

NextWrap ==
    \/ WrapMove
    \/ WrapLoop

SpecWrap == InitWrap /\ [][NextWrap]_vars

\* ------------------------------------------------------------ spawning and climbing the field
\* spawn_world_system builds the platform field, one platform per step of its
\* loop; afterwards the player climbs the field of all its platforms.  Of
\* the frame only the physics step and the collision handler are followed.
\* Of the horizontal draws the last one is kept.
InitField ==
    /\ stage = "Startup"
    /\ pending = {"spawn_world_system"}
    /\ linvel_x = 0
    /\ linvel_y = 0
    /\ translation_x = 0
    /\ translation_y = 0
    /\ player_colliding = FALSE
    /\ facing_right = TRUE
    /\ camera_x = 0
    /\ camera_y = 0
    /\ already_collided = <<>>
    /\ score = 0
    /\ collision_events = <<>>
    /\ contacts = {}
    /\ keyboard_input = NoKeys
    /\ platform_y = <<>>
    /\ last_platform_x = 0
    /\ time_delta = 0
    /\ flip_x = FALSE
    /\ score_text = "0.0"
    /\ update_systems = UpdateSystems

\* Spawn Initial Platform
SpawnAnchor ==
    /\ stage = "Startup"
    /\ platform_y = <<>>
    /\ platform_y' = <<-(WINDOW_HEIGHT \div 4)>>
    /\ last_platform_x' = 0
    /\ already_collided' = <<FALSE>>
    /\ UNCHANGED <<stage, pending, linvel_x, linvel_y, translation_x,
                   translation_y, player_colliding, facing_right, camera_x,
                   camera_y, score, collision_events, contacts,
                   keyboard_input, presentation, time_delta, update_systems>>

\* Spawn Additional Platforms: one pass of the loop body, which ends the
\* startup system after the pass for the last index.
SpawnGenerated ==
    /\ stage = "Startup"
    /\ platform_y # <<>>
    /\ LET index == Len(platform_y)
       IN  /\ index \in SpawnIndices
           /\ last_platform_x' \in SpawnXs
           /\ platform_y' = Append(platform_y, PlatformY(index))
           /\ already_collided' = Append(already_collided, FALSE)
           /\ IF index + 1 \in SpawnIndices
              THEN UNCHANGED <<stage, pending>>
              ELSE stage' = "Physics" /\ pending' = {}
    /\ UNCHANGED <<linvel_x, linvel_y, translation_x, translation_y,
                   player_colliding, facing_right, camera_x, camera_y, score,
                   collision_events, contacts, keyboard_input, presentation,
                   time_delta, update_systems>>

\* The highest platform the player has landed on (0: none yet).
Top ==
    LET marked == {p \in DOMAIN already_collided : already_collided[p]}
    IN  IF marked = {} THEN 0 ELSE CHOOSE p \in marked : \A q \in marked : q <= p

\* Platforms within the player's reach: the one it stands on and the next
\* one up (the platforms are a ladder, see PlatformY).
Reach ==
    LET top == Top
    IN  {p \in DOMAIN already_collided : top <= p /\ p <= top + 1}

\* As Emittable, with contacts starting only within reach and only once the
\* contacts out of reach have stopped.
ClimbEmittable(c) ==
    LET reach == Reach
    IN  {Started(pr[1], pr[2], 0) :
            pr \in UNION {Pairs(p) : p \in IF c \subseteq reach THEN reach \ c ELSE {}}}
        \cup {Stopped(pr[1], pr[2], 0) : pr \in UNION {Pairs(p) : p \in c}}

\* The step of a climbing frame emits one event at most.
ClimbEmissions(c) == {<<>>} \cup {<<ev>> : ev \in ClimbEmittable(c)}

ClimbPhysicsStep ==
    /\ stage = "Physics"
    /\ stage' = "PostUpdate"
    /\ pending' = {"player_collision_detection_system"}
    /\ \E evs \in ClimbEmissions(contacts) :
          /\ collision_events' = collision_events \o evs
          /\ contacts' = ContactsAfter(evs, contacts)
    /\ UNCHANGED <<linvel_x, linvel_y, translation_x, translation_y,
                   player_colliding, facing_right, camera_x, camera_y,
                   already_collided, score, keyboard_input,
                   field, presentation, time_delta, update_systems>>

ClimbCollisionStep ==
    /\ stage = "PostUpdate"
    /\ Ran("player_collision_detection_system", "Physics", {})
    /\ player_collision_detection_system
    /\ UNCHANGED <<linvel_x, linvel_y, translation_x, translation_y,
                   facing_right, camera_x, camera_y, contacts, keyboard_input,
                   field, presentation, time_delta, update_systems>>

NextField ==
    \/ SpawnAnchor
    \/ SpawnGenerated
    \/ ClimbPhysicsStep
    \/ ClimbCollisionStep

SpecField == InitField /\ [][NextField]_vars

\* ------------------------------------------------------------ the camera behind a resting player
\* Frame after frame of player_camera_follow_system with the player at rest
\* and a frame time that stays the same: 60 frames a second, 10, 5, and the
\* slow frames of a stalled window.
CamDeltas == {16, 100, 200, 300, 500}

\* The camera is followed while it is within this distance of the origin.
CamLimit == 700000

InitCam ==
    /\ stage = "Update"
    /\ pending = {"player_camera_follow_system"}
    /\ linvel_x = 0
    /\ linvel_y = 0
    /\ translation_x \in {0, 50000}
    /\ translation_y \in {-100000, 0, 100000}
    /\ player_colliding = FALSE
    /\ facing_right = TRUE
    /\ camera_x = 0
    /\ camera_y = 0
    /\ already_collided = [p \in Platforms |-> FALSE]
    /\ score = 0
    /\ collision_events = <<>>
    /\ contacts = {}
    /\ keyboard_input = NoKeys
    /\ platform_y = [i \in Platforms |-> PlatformY(i - 1)]
    /\ last_platform_x = 0
    /\ time_delta \in CamDeltas
    /\ flip_x = FALSE
    /\ score_text = "0.0"
    /\ update_systems = {"player_camera_follow_system"}

CamFollow ==
    /\ stage = "Update"
    /\ camera_y >= -CamLimit /\ camera_y <= CamLimit
    /\ player_camera_follow_system(time_delta)
    /\ UNCHANGED <<stage, pending, linvel_x, linvel_y, translation_x,
                   translation_y, player_colliding, facing_right,
                   already_collided, score, collision_events, contacts,
                   keyboard_input, field, presentation, time_delta,
                   update_systems>>

NextCam == CamFollow

SpecCam == InitCam /\ [][NextCam]_vars

\* ------------------------------------------------------------ the frame with the presentation systems
\* The frame of Spec together with the two systems of CoreStage::Update that
\* show the state: the sprite's flip and the score text.
player_animation_system ==
    flip_x' = IF facing_right = TRUE THEN FALSE ELSE TRUE

\* score.0.to_string()
update_score_system == score_text' = ToString(score)

AllUpdateSystems ==
    UpdateSystems \cup {"update_score_system", "player_animation_system"}

InitFrame ==
    /\ stage = "Update"
    /\ pending = AllUpdateSystems
    /\ linvel_x = 0
    /\ linvel_y = 0
    /\ translation_x = 0
    /\ translation_y = 0
    /\ player_colliding = FALSE
    /\ facing_right = TRUE
    /\ camera_x = 0
    /\ camera_y = 0
    /\ already_collided = [p \in Platforms |-> FALSE]
    /\ score = 0
    /\ collision_events = <<>>
    /\ contacts = {}
    /\ keyboard_input = NoKeys
    /\ platform_y = [i \in Platforms |-> PlatformY(i - 1)]
    /\ last_platform_x = 0
    /\ time_delta = 0
    /\ flip_x = FALSE
    /\ score_text = "0.0"
    /\ update_systems = AllUpdateSystems

AnimationStep ==
    /\ stage = "Update"
    /\ Ran("player_animation_system", "Physics", {})
    /\ player_animation_system
    /\ UNCHANGED <<linvel_x, linvel_y, translation_x, translation_y,
                   player_colliding, facing_right, camera_x, camera_y,
                   already_collided, score, collision_events, contacts,
                   keyboard_input, field, score_text, time_delta,
                   update_systems>>

ScoreTextStep ==
    /\ stage = "Update"
    /\ Ran("update_score_system", "Physics", {})
    /\ update_score_system
    /\ UNCHANGED <<linvel_x, linvel_y, translation_x, translation_y,
                   player_colliding, facing_right, camera_x, camera_y,
                   already_collided, score, collision_events, contacts,
                   keyboard_input, field, flip_x, time_delta,
                   update_systems>>

NextFrame ==
    \/ Next
    \/ AnimationStep
    \/ ScoreTextStep

SpecFrame == InitFrame /\ [][NextFrame]_vars

\* ============================================================ claims
Handler == "player_collision_detection_system"

\* The transition is a run of the collision handler.
HandlerRuns == stage = "PostUpdate" /\ Handler \in pending /\ Handler \notin pending'

\* The handler has run in the frame and the wrap system may still follow.
HandlerDone == collision_events = <<>> /\ (stage = "Update" \/ Handler \notin pending)

\* An event naming the Player first and a platform second.
PlayerFirst(ev) == ev.e1 = PlayerEntity /\ ev.e2 \in Platforms /\ ev.flags = 0

PlayerFirstEvents(evs) == SelectSeq(evs, PlayerFirst)

\* Platforms with a Began(Player, p) in evs that have not collided before.
NewlyTouched(evs) ==
    {p \in Platforms :
        /\ ~already_collided[p]
        /\ \E i \in 1..Len(evs) : evs[i] = Started(PlayerEntity, p, 0)}

\* C1: the score starts at 0, never decreases from one state to the next and
\* never exceeds the number of platforms.
C1_ScoreMonotoneBounded ==
    /\ score = 0
    /\ [][score' >= score]_vars
    /\ [](score >= 0 /\ score <= NumPlatforms)

\* C1 witness: every platform has been touched and the score is at its cap.
C1_Witness ==
    /\ HandlerDone
    /\ score = NumPlatforms
    /\ \A p \in Platforms : already_collided[p]

\* C2: one Began(Player, P) adds exactly 1 and marks P when P was unmarked and
\* adds nothing when P was marked; over a whole event list each platform adds
\* at most one, however often it is touched again.
C2_OneIncrementPerPlatform ==
    [][HandlerRuns =>
        /\ \A p \in Platforms :
              collision_events = <<Started(PlayerEntity, p, 0)>> =>
                  /\ already_collided'[p]
                  /\ score' = IF already_collided[p] THEN score ELSE score + 1
        /\ score' = score + Cardinality(NewlyTouched(collision_events))
        /\ \A p \in Platforms :
              already_collided'[p] =
                  (already_collided[p] \/ p \in NewlyTouched(collision_events))
      ]_vars

\* C2 witness: the handler is about to read a Began for a platform that has
\* scored before (a re-touch), with the score at 1.
C2_Witness ==
    /\ stage = "PostUpdate"
    /\ Handler \in pending
    /\ \E p \in Platforms :
          /\ collision_events = <<Started(PlayerEntity, p, 0)>>
          /\ already_collided[p]
          /\ score = 1

\* C3: already_collided is false for every platform at creation and, once
\* true, is never set back to false by any system.
C3_AlreadyCollidedMonotone ==
    /\ \A p \in Platforms : ~already_collided[p]
    /\ [][\A p \in Platforms : already_collided[p] => already_collided'[p]]_vars

\* C3 witness: a platform that scored has been left again and keeps its mark.
C3_Witness ==
    /\ HandlerDone
    /\ \E p \in Platforms :
          already_collided[p] /\ p \notin contacts /\ ~player_colliding

\* The event with the Player named first, whichever way round it was emitted.
Swapped(ev) ==
    IF ev.e2 = PlayerEntity /\ ev.e1 \in Platforms
    THEN [ev EXCEPT !.e1 = ev.e2, !.e2 = ev.e1]
    ELSE ev

SwappedAll(evs) == [i \in 1..Len(evs) |-> Swapped(evs[i])]

\* C4: an event that names the platform first and the Player second has the
\* same effect on player_colliding, score and already_collided as the same
\* event with the Player named first.
C4_SymmetricIdentifiers ==
    [][HandlerRuns =>
        LET st == ForEachEvent(SwappedAll(collision_events), PlatformQuery,
                               [score |-> score,
                                player_colliding |-> player_colliding,
                                already_collided |-> already_collided])
        IN  /\ score' = st.score
            /\ player_colliding' = st.player_colliding
            /\ already_collided' = st.already_collided
      ]_vars

\* C5: player_colliding starts false; right after the handler has read a
\* Began between the Player and a platform as its last event it is true, and
\* right after an Ended with no contact left it is false.
C5_GroundedFollowsEvents ==
    /\ player_colliding = FALSE
    /\ [][HandlerRuns /\ collision_events # <<>> =>
            LET last == collision_events[Len(collision_events)]
            IN  /\ last.kind = "Started" => player_colliding' = TRUE
                /\ (last.kind = "Stopped" /\ contacts = {}) =>
                       player_colliding' = FALSE
         ]_vars

\* C6: the flag does not count contacts: when the last event the handler
\* reads for the Player is an Ended, player_colliding becomes false although
\* another platform is still in contact.
C6_LastEventWins ==
    [][(/\ HandlerRuns
        /\ contacts # {}
        /\ PlayerFirstEvents(collision_events) # <<>>
        /\ LET evs == PlayerFirstEvents(collision_events)
           IN  evs[Len(evs)].kind = "Stopped")
       => player_colliding' = FALSE
      ]_vars

\* C6 witness: every platform has been landed on, one is still in contact
\* and the flag is false.
C6_Witness ==
    /\ HandlerDone
    /\ contacts # {}
    /\ \A p \in Platforms : already_collided[p]
    /\ player_colliding = FALSE

\* The transition is a run of player_input_system.
InputRuns ==
    /\ stage = "Update"
    /\ "player_input_system" \in pending
    /\ "player_input_system" \notin pending'

\* player_input_system has run on the snapshot in keyboard_input.
InputDone == stage = "Physics" /\ pending = {}

\* C7: after the input system, Down pressed gives linvel.y = -3 * jump_force
\* whether or not the player is colliding; Down released and colliding gives
\* jump_force; Down released and not colliding leaves linvel.y unchanged.
C7_FastFallOverridesJump ==
    [][InputRuns =>
        /\ keyboard_input.down => linvel_y' = -(3 * JUMP_FORCE)
        /\ (~keyboard_input.down /\ player_colliding) => linvel_y' = JUMP_FORCE
        /\ (~keyboard_input.down /\ ~player_colliding) => linvel_y' = linvel_y
      ]_vars

\* C7 witness: Down was pressed while colliding, and the fast fall stands.
C7_Witness ==
    /\ InputDone
    /\ keyboard_input.down
    /\ player_colliding
    /\ linvel_y = -(3 * JUMP_FORCE)

\* What C8 says of one key alone and of no key.
FacingOneKey ==
    /\ (keyboard_input.right /\ ~keyboard_input.left) => facing_right' = TRUE
    /\ (keyboard_input.left /\ ~keyboard_input.right) => facing_right' = FALSE
    /\ (~keyboard_input.left /\ ~keyboard_input.right) =>
           facing_right' = facing_right

\* C8 as stated: with Left and Right both pressed, Right takes precedence
\* and facing_right is true.
C8_RightTakesPrecedence ==
    [][InputRuns =>
        /\ FacingOneKey
        /\ (keyboard_input.left /\ keyboard_input.right) => facing_right' = TRUE
      ]_vars

\* C8 amended: with Left and Right both pressed, Left takes precedence and
\* facing_right is false; one key alone and no key are as stated.
C8_LeftTakesPrecedence ==
    [][InputRuns =>
        /\ FacingOneKey
        /\ (keyboard_input.left /\ keyboard_input.right) => facing_right' = FALSE
      ]_vars

\* C8 witness: both keys were pressed and the player faces left.
C8_Witness ==
    /\ InputDone
    /\ keyboard_input.left
    /\ keyboard_input.right
    /\ facing_right = FALSE

\* The quantities of the wrap claims: halfWidth, pad and horizontalOffset.
HalfWidth == WINDOW_WIDTH \div 2
SpritePad == SPRITE_SIZE \div 2
HorizontalOffset == (12 * SPRITE_SIZE) \div 10

\* The transition is a run of player_screen_looping_system.
WrapRuns ==
    /\ stage = "PostUpdate"
    /\ "player_screen_looping_system" \in pending
    /\ "player_screen_looping_system" \notin pending'

\* player_screen_looping_system has run on the position of the frame.
WrapDone == stage = "Physics" /\ pending = {}

\* C9: after the wrap system the player's x lies in
\* [-halfWidth - pad, halfWidth + pad].
C9_WrappedXInWindow ==
    WrapDone =>
        /\ translation_x >= -HalfWidth - SpritePad
        /\ translation_x <= HalfWidth + SpritePad

\* C9 witness: the wrap system has written the left entry position.
C9_Witness ==
    /\ WrapDone
    /\ translation_x = -HalfWidth + HorizontalOffset
    /\ linvel_x = MOVEMENT_SPEED

\* C10: x > halfWidth + spritePad goes to -halfWidth + horizontalOffset,
\* x < -halfWidth goes to halfWidth + spritePad, any x between is unchanged,
\* and y is never changed.
C10_WrapMapping ==
    [][WrapRuns =>
        /\ translation_x > HalfWidth + SpritePad =>
               translation_x' = -HalfWidth + HorizontalOffset
        /\ translation_x < -HalfWidth =>
               translation_x' = HalfWidth + SpritePad
        /\ (translation_x >= -HalfWidth /\ translation_x <= HalfWidth + SpritePad)
               => translation_x' = translation_x
        /\ translation_y' = translation_y
      ]_vars

\* C10 witness: a player that left through the left edge, above the floor,
\* stands at the right entry position.
C10_Witness ==
    /\ WrapDone
    /\ translation_x = HalfWidth + SpritePad
    /\ linvel_x = -MOVEMENT_SPEED
    /\ translation_y = 100000

\* ------------------------------------------------------------ C11, C12: the platform field
\* spawn_world_system is still running.
Spawning == stage = "Startup"

\* C11: the field built at startup has exactly 50 platforms (the anchor and
\* 49 generated ones), each created unmarked; the heights start at
\* -WINDOW_HEIGHT / 4 and rise by WINDOW_HEIGHT / 4.2 from each platform to
\* the next, whatever x was drawn; after startup no platform is created or
\* destroyed.
C11_FieldOfFifty ==
    /\ Len(platform_y) = Len(already_collided)
    /\ Spawning =>
           /\ Len(platform_y) <= 50
           /\ \A p \in DOMAIN already_collided : ~already_collided[p]
    /\ ~Spawning => Len(platform_y) = 50
    /\ platform_y # <<>> => platform_y[1] = -(WINDOW_HEIGHT \div 4)
    /\ \A i \in DOMAIN platform_y :
           i > 1 => /\ platform_y[i] - platform_y[i - 1] = (WINDOW_HEIGHT * 10) \div 42
                    /\ platform_y[i] > platform_y[i - 1]

\* C11 witness: the field is complete, its last platform was drawn off
\* centre, and the player has landed on a platform since.
C11_Witness ==
    /\ ~Spawning
    /\ Len(platform_y) = 50
    /\ last_platform_x # 0
    /\ score = 2

\* The spawn loop is about to draw the x of a generated platform.
Drawing == Spawning /\ platform_y # <<>>

\* C12 as stated: the x of a generated platform is drawn from
\* [-(halfWidth - platformHalfWidth), halfWidth - platformHalfWidth), with
\* platformHalfWidth = PLATFORM_WIDTH / 2: each value of it can be drawn and
\* no other.
C12_HalfPlatformMargin ==
    Drawing =>
        \A x \in DrawGrid :
            (ENABLED (SpawnGenerated /\ last_platform_x' = x))
            <=> /\ x >= -(WINDOW_WIDTH \div 2 - PLATFORM_WIDTH \div 2)
                /\ x < WINDOW_WIDTH \div 2 - PLATFORM_WIDTH \div 2

\* C12 amended: the x of a generated platform is drawn from
\* [-(halfWidth - PLATFORM_WIDTH), halfWidth - PLATFORM_WIDTH), a margin of
\* a whole platform width: each value of it can be drawn and no other.
C12_WholePlatformMargin ==
    Drawing =>
        \A x \in DrawGrid :
            (ENABLED (SpawnGenerated /\ last_platform_x' = x))
            <=> /\ x >= -(WINDOW_WIDTH \div 2 - PLATFORM_WIDTH)
                /\ x < WINDOW_WIDTH \div 2 - PLATFORM_WIDTH

\* C12 witness: a generated platform stands at the lower end of the range
\* and the loop draws again.
C12_Witness ==
    /\ Drawing
    /\ Len(platform_y) > 1
    /\ last_platform_x = -(WINDOW_WIDTH \div 2 - PLATFORM_WIDTH)

\* ------------------------------------------------------------ C13, C14: the camera
Min(a, b) == IF a <= b THEN a ELSE b

\* C13: the camera's y moves toward the player's y by the factor
\* min(1, follow_speed * deltaTime): with the player at rest and a fixed
\* frame time it never passes the player and its distance to the player
\* shrinks with every frame.
C13_NoOvershoot ==
    [][(stage = "Update" /\ camera_y # translation_y) =>
        LET d == translation_y - camera_y
            e == translation_y - camera_y'
        IN  /\ camera_y' = Lerp(camera_y, translation_y,
                                 Min(1000, FOLLOW_SPEED * time_delta))
            /\ d > 0 => (e >= 0 /\ e < d)
            /\ d < 0 => (e <= 0 /\ e > d)
      ]_vars

\* C14: the camera's x is 0 in every reachable state.
C14_CameraXPinned == camera_x = 0

\* C14 witness: the camera has followed a player that stands off the
\* centre line, and has moved up.
C14_Witness ==
    /\ translation_x # 0
    /\ camera_y > 0
    /\ camera_x = 0

\* ------------------------------------------------------------ C20: the i8 score
\* C20: score.0 += 1 never overflows the i8: whenever the handler changes
\* the score, the score was below 127 and is one more afterwards.
C20_IncrementFits ==
    [][(HandlerRuns /\ score' # score) => (score < 127 /\ score' = score + 1)]_vars

\* C20 witness: the player has scored on every platform of the field.
C20_Witness ==
    /\ ~Spawning
    /\ score = Len(platform_y)
    /\ \A p \in DOMAIN already_collided : already_collided[p]

\* ------------------------------------------------------------ C15, C16: the schedule and its writers
\* The transition is a run of the named system.
SystemRuns(sys) == stage = "Update" /\ sys \in pending /\ sys \notin pending'
PostSystemRuns(sys) == stage = "PostUpdate" /\ sys \in pending /\ sys \notin pending'

\* The physics step of the frame has run.
PhysicsDone == stage = "PostUpdate"

\* C15: in every tick the systems run in the order InputTranslator, physics
\* step, collision handler, then CameraFollower and ScreenWrapper: the
\* input system runs before the physics step, the handler after it, and
\* the camera and the wrap system after the handler has run in the tick.
C15_FixedOrder ==
    [][/\ SystemRuns("player_input_system") => ~PhysicsDone
       /\ PostSystemRuns(Handler) => PhysicsDone
       /\ SystemRuns("player_camera_follow_system") =>
              (PhysicsDone /\ Handler \notin pending)
       /\ PostSystemRuns("player_screen_looping_system") =>
              (PhysicsDone /\ Handler \notin pending)
      ]_vars

\* No event of the list is a Started that names the Player first.
NoPlayerStarted(evs) ==
    \A i \in DOMAIN evs : ~(evs[i].kind = "Started" /\ PlayerFirst(evs[i]))

\* C16: player_colliding, score and already_collided change only in a run
\* of the collision handler and facing_right only in a run of the input
\* system; the input system (respawn included), the camera, the wrap system
\* and the presentation systems leave player_colliding, score and every
\* already_collided as they are; a handler run that reads no Started of the
\* Player leaves score and already_collided as they are.
C16_SingleWriter ==
    [][/\ player_colliding' # player_colliding => HandlerRuns
       /\ score' # score => HandlerRuns
       /\ already_collided' # already_collided => HandlerRuns
       /\ facing_right' # facing_right => SystemRuns("player_input_system")
       /\ (HandlerRuns /\ NoPlayerStarted(collision_events)) =>
              (score' = score /\ already_collided' = already_collided)
      ]_vars

\* C16 witness: with a platform scored and the player in contact, the
\* presentation systems have shown the score and a player facing left, and
\* the player stands where a respawn puts it.
C16_Witness ==
    /\ score = 1
    /\ player_colliding
    /\ score_text = "1"
    /\ flip_x
    /\ ~facing_right
    /\ translation_x = 0
    /\ stage = "Physics"

\* ------------------------------------------------------------ C17: grounded permits the jump
\* C17: when the last event the handler reads in a tick is a Began between
\* the Player and a platform, the input system of the next tick writes
\* linvel.y = jump_force (-3 * jump_force with Down), and so in every tick
\* until the handler reads an Ended; when the last event is an Ended, also
\* one that follows a Began of the same tick, the next tick's input system
\* writes no jump velocity.  The flag carries it: the handler leaves
\* player_colliding at what the last event says, nothing else changes it,
\* and the input system jumps exactly when it is set.
C17_GroundedPermitsJump ==
    [][/\ (HandlerRuns /\ collision_events # <<>>) =>
              LET last == collision_events[Len(collision_events)]
              IN  player_colliding' = (last.kind = "Started")
       /\ (HandlerRuns /\ collision_events = <<>>) =>
              player_colliding' = player_colliding
       /\ ~HandlerRuns => player_colliding' = player_colliding
       /\ InputRuns =>
              IF player_colliding
              THEN linvel_y' \in {JUMP_FORCE, -3 * JUMP_FORCE}
              ELSE linvel_y' # JUMP_FORCE
      ]_vars

\* ------------------------------------------------------------ C18: score and marks agree
\* C18: in every reachable state the score is the number of platforms whose
\* already_collided is true.
C18_ScoreCountsMarks ==
    score = Cardinality({p \in DOMAIN already_collided : already_collided[p]})

\* C18 witness: one platform is marked and has been left, another is
\* touched in the platform-first order and is not marked; the score is 1.
C18_Witness ==
    /\ HandlerDone
    /\ score = 1
    /\ \E p \in Platforms : already_collided[p] /\ p \notin contacts
    /\ \E p \in Platforms : ~already_collided[p] /\ p \in contacts

\* ------------------------------------------------------------ C19: wrapping twice
\* C19: the wrap system is idempotent: the x it leaves is an x it would
\* leave unchanged, so a second run on a player that has not moved gives
\* the same x as the first.
C19_WrapIdempotent ==
    [][WrapRuns => LoopedX(translation_x') = translation_x']_vars

\* C19 witness: the wrap system has run on a player that rests at the right
\* entry position, where an earlier run has put it.
C19_Witness ==
    /\ WrapDone
    /\ translation_x = RightEntry
    /\ linvel_x = 0
    /\ translation_y = 0

====
